---- MODULE Spec2Model ----
(***************************************************************************)
(* Model of the YieldOptimizer contract (src/src/lib.rs): the strategy     *)
(* registry, the per-account position ledger, the TVL aggregate and the    *)
(* reward calculation, together with the host that calls the contract,     *)
(* advances the block timestamp and executes the transfer promises.        *)
(*                                                                         *)
(* Balance is u128.  TLC's integers are 32-bit, so a Balance is held as    *)
(* its sequence of base-16 limbs, least significant first, without leading *)
(* zero limbs (0 is << >>); the arithmetic below is the schoolbook         *)
(* arithmetic on limbs and a u128 result keeps its low 128 bits.  u64      *)
(* values (apy, timestamps, ids) stay far below 2^27 in every run and are  *)
(* plain naturals.                                                         *)
(***************************************************************************)
EXTENDS Naturals, Sequences, FiniteSets

\* ------------------------------------------------------------------------
\* Limb arithmetic
\* ------------------------------------------------------------------------

\* One limb holds four bits.
Base == 2^4

\* Number of limbs of a u128.
U128Limbs == 128 \div 4

Limb(x, i) == IF i <= Len(x) THEN x[i] ELSE 0

RECURSIVE Norm(_)
\* Drop the most significant zero limbs.
Norm(x) ==
    IF x = << >> THEN << >>
    ELSE IF x[Len(x)] = 0 THEN Norm(SubSeq(x, 1, Len(x) - 1))
    ELSE x

RECURSIVE NatToBig(_)
\* The limbs of a natural number below 2^31.
NatToBig(n) ==
    IF n = 0 THEN << >> ELSE <<n % Base>> \o NatToBig(n \div Base)

RECURSIVE AddFrom(_, _, _, _)
AddFrom(a, b, i, carry) ==
    IF i > Len(a) /\ i > Len(b)
    THEN NatToBig(carry)
    ELSE LET s == Limb(a, i) + Limb(b, i) + carry
         IN  <<s % Base>> \o AddFrom(a, b, i + 1, s \div Base)

\* a + b, unbounded.
BigAdd(a, b) == AddFrom(a, b, 1, 0)

RECURSIVE MulFrom(_, _, _, _)
MulFrom(a, m, i, carry) ==
    IF i > Len(a)
    THEN NatToBig(carry)
    ELSE LET p == a[i] * m + carry
         IN  <<p % Base>> \o MulFrom(a, m, i + 1, p \div Base)

\* a * m, unbounded, for a natural m below 2^27.
BigMulSmall(a, m) == Norm(MulFrom(a, m, 1, 0))

RECURSIVE DivFrom(_, _, _, _)
\* The quotient limbs of (rem * Base^i + a[1..i]) divided by d.
DivFrom(a, d, i, rem) ==
    IF i = 0
    THEN << >>
    ELSE LET cur == rem * Base + a[i]
         IN  DivFrom(a, d, i - 1, cur % d) \o <<cur \div d>>

\* floor(a / d) for a natural d, 0 < d < 2^27.
BigDivSmall(a, d) == Norm(DivFrom(a, d, Len(a), 0))

RECURSIVE LtFrom(_, _, _)
LtFrom(a, b, i) ==
    IF i = 0 THEN FALSE
    ELSE IF a[i] # b[i] THEN a[i] < b[i]
    ELSE LtFrom(a, b, i - 1)

\* a < b on normalised limb sequences.
BigLt(a, b) ==
    IF Len(a) # Len(b) THEN Len(a) < Len(b) ELSE LtFrom(a, b, Len(a))

BigLe(a, b) == ~BigLt(b, a)

\* The low 128 bits of x: what a u128 keeps of a result.
WrapU128(x) ==
    IF Len(x) <= U128Limbs THEN x ELSE Norm(SubSeq(x, 1, U128Limbs))

\* u128 addition and multiplication as the release build computes them: the
\* result modulo 2^128.
U128Add(a, b) == WrapU128(BigAdd(a, b))

U128Mul(a, m) == WrapU128(BigMulSmall(a, m))

\* ------------------------------------------------------------------------
\* Reward calculation
\* ------------------------------------------------------------------------

seconds_in_year == 31536000

\* Mutant: divides by the basis-point scale before multiplying by the rate.
calculate_rewards_divide_first(amount, apy, time_elapsed) ==
    LET annual_reward == U128Mul(BigDivSmall(amount, 10000), apy)
    IN  BigDivSmall(U128Mul(annual_reward, time_elapsed), seconds_in_year)

calculate_rewards(amount, apy, time_elapsed) ==
    LET annual_reward == BigDivSmall(U128Mul(amount, apy), 10000)
    IN  BigDivSmall(U128Mul(annual_reward, time_elapsed), seconds_in_year)

\* ------------------------------------------------------------------------
\* Bounds and inputs
\* ------------------------------------------------------------------------

\* At most MaxStrategies strategies are added, MaxDeposits deposits and
\* MaxClaims claims succeed, MaxCalls of the three together, and the block
\* timestamp runs from 1 to MaxTime.
MaxStrategies == 2
MaxDeposits == 2
MaxClaims == 2
MaxCalls == 4
MaxTime == 2

Accounts == {"alice", "bob"}
Owners == {"alice"}
Tokens == {"token"}
NoAccount == "none"

Names == {"stable"}
Protocols == {"ref"}
InitialApys == {500}
NewApys == {1000}

\* 10^21 yocto, the global minimum set by new().
GlobalMinDeposit ==
    BigMulSmall(BigMulSmall(NatToBig(10000000), 10000000), 10000000)

HalfMin == BigDivSmall(GlobalMinDeposit, 2)
TwiceMin == BigMulSmall(GlobalMinDeposit, 2)

\* Attached deposits the host may supply, and per-strategy minimums the
\* owner may set.
AttachedDeposits == {HalfMin, GlobalMinDeposit}
StrategyMinimums == {<< >>, TwiceMin}

StrategyIds == 0..MaxStrategies
PositionIndexes == 0..MaxDeposits

Methods ==
    {"add_strategy", "deposit", "claim_rewards", "update_strategy_apy"}

\* ------------------------------------------------------------------------
\* State
\* ------------------------------------------------------------------------

VARIABLES
    state_exists,        \* env::state_exists(): the contract struct is stored
    owner_id,
    governance_token,
    strategies,          \* UnorderedMap<u64, Strategy>: a function on its keys
    user_positions,      \* LookupMap<AccountId, Vec<UserPosition>>
    total_tvl,
    strategy_count,
    min_deposit_amount,
    now,                 \* env::block_timestamp(), advanced by the host
    receipts,            \* the transfer promises issued, with their outcome
                         \* and the time and apy of the claim
    deposit_log,         \* history: per account, the positions its
                         \* successful deposits created, in order
    adds_made,           \* history: the number of successful add_strategy
                         \* calls
    last,                \* the call or host step just made, and its outcome
    calc                 \* one evaluation of calculate_rewards on its own

contract ==
    <<state_exists, owner_id, governance_token, strategies, user_positions,
      total_tvl, strategy_count, min_deposit_amount>>

vars == <<contract, now, receipts, deposit_log, adds_made, last, calc>>

NoPromise == [receiver |-> NoAccount, amount |-> << >>]

\* The record of a step: which operation, by whom, how it ended ("ok" or
\* the panic message) and the promise it returned.
Call(op, caller, status, promise) ==
    [op |-> op, caller |-> caller, status |-> status, promise |-> promise]

\* History sizes: successful deposits and successful state-changing calls.
RECURSIVE CountPositions(_, _)
CountPositions(ledger, accounts) ==
    IF accounts = {} THEN 0
    ELSE LET a == CHOOSE x \in accounts : TRUE
         IN  Len(ledger[a]) + CountPositions(ledger, accounts \ {a})

deposits_made == CountPositions(deposit_log, DOMAIN deposit_log)

calls_made == strategy_count + deposits_made + Len(receipts)

NoCalc ==
    [phase |-> "idle", amount |-> << >>, apy |-> 0, time_elapsed |-> 0,
     rewards |-> << >>]

Undeployed ==
    /\ state_exists = FALSE
    /\ owner_id = NoAccount
    /\ governance_token = NoAccount
    /\ strategies = [id \in {} |-> << >>]
    /\ user_positions = [a \in {} |-> << >>]
    /\ total_tvl = << >>
    /\ strategy_count = 0
    /\ min_deposit_amount = << >>
    /\ now = 1
    /\ receipts = << >>
    /\ deposit_log = [a \in {} |-> << >>]
    /\ adds_made = 0
    /\ last = Call("deploy", NoAccount, "ok", NoPromise)

Init ==
    /\ Undeployed
    /\ calc = NoCalc

\* A panic: the host discards every write of the call.
Rejected ==
    UNCHANGED <<calc, contract, now, receipts, deposit_log, adds_made>>

\* ------------------------------------------------------------------------
\* View methods
\* ------------------------------------------------------------------------

get_strategy(strategy_id) ==
    IF strategy_id \in DOMAIN strategies
    THEN <<strategies[strategy_id]>>
    ELSE << >>

get_user_positions(user_id) ==
    IF user_id \in DOMAIN user_positions
    THEN user_positions[user_id]
    ELSE << >>

get_total_tvl == total_tvl

\* ------------------------------------------------------------------------
\* new
\* ------------------------------------------------------------------------

\* Mutant: new() does not check whether the state exists.
already_initialized_unchecked == FALSE

\* assert!(!env::state_exists(), "Already initialized") fails.
already_initialized == state_exists

new(caller, owner, token) ==
    IF already_initialized
    THEN /\ last' = Call("new", caller, "Already initialized", NoPromise)
         /\ Rejected
    ELSE /\ state_exists' = TRUE
         /\ owner_id' = owner
         /\ governance_token' = token
         /\ strategies' = [id \in {} |-> << >>]
         /\ user_positions' = [a \in {} |-> << >>]
         /\ total_tvl' = << >>
         /\ strategy_count' = 0
         /\ min_deposit_amount' = GlobalMinDeposit
         /\ last' = Call("new", caller, "ok", NoPromise)
         /\ UNCHANGED <<calc, now, receipts, deposit_log, adds_made>>

\* A method called before new(): the PanicOnDefault struct cannot be built.
not_initialized(caller, method) ==
    /\ ~state_exists
    /\ last' = Call(method, caller, "The contract is not initialized",
                    NoPromise)
    /\ Rejected

\* ------------------------------------------------------------------------
\* add_strategy
\* ------------------------------------------------------------------------

\* Mutant: the owner check is missing.
is_owner_anyone(caller) == TRUE

\* assert_eq!(env::predecessor_account_id(), self.owner_id, "Unauthorized")
is_owner(caller) == caller = owner_id

\* Mutant: the strategy is always stored under id 0.
insert_strategy_at_zero(strategy_id, strategy) ==
    [id \in DOMAIN strategies \cup {0} |->
        IF id = 0 THEN strategy ELSE strategies[id]]

\* self.strategies.insert(&strategy_id, &strategy)
insert_strategy(strategy_id, strategy) ==
    [id \in DOMAIN strategies \cup {strategy_id} |->
        IF id = strategy_id THEN strategy ELSE strategies[id]]

add_strategy_status(caller) ==
    IF ~is_owner(caller) THEN "Unauthorized" ELSE "ok"

add_strategy(caller, name, protocol, apy, min_deposit) ==
    LET status == add_strategy_status(caller)
        strategy == [name |-> name, protocol |-> protocol, apy |-> apy,
                     tvl |-> << >>, min_deposit |-> min_deposit,
                     is_active |-> TRUE, last_update |-> now]
    IN  /\ state_exists
        /\ last' = Call("add_strategy", caller, status, NoPromise)
        /\ IF status = "ok"
           THEN /\ strategy_count < MaxStrategies
                /\ calls_made < MaxCalls
                /\ strategies' = insert_strategy(strategy_count, strategy)
                /\ strategy_count' = strategy_count + 1
                /\ adds_made' = adds_made + 1
                /\ UNCHANGED <<calc, state_exists, owner_id, governance_token,
                               user_positions, total_tvl, min_deposit_amount,
                               now, receipts, deposit_log>>
           ELSE Rejected

\* ------------------------------------------------------------------------
\* deposit
\* ------------------------------------------------------------------------

\* Mutant: the strategy's own minimum is not checked.
deposit_status_no_strategy_minimum(strategy_id, deposit_amount) ==
    IF BigLt(deposit_amount, min_deposit_amount)
    THEN "Deposit too small"
    ELSE IF strategy_id \notin DOMAIN strategies
    THEN "Strategy not found"
    ELSE IF ~strategies[strategy_id].is_active
    THEN "Strategy is not active"
    ELSE "ok"

deposit_status(strategy_id, deposit_amount) ==
    IF BigLt(deposit_amount, min_deposit_amount)
    THEN "Deposit too small"
    ELSE IF strategy_id \notin DOMAIN strategies
    THEN "Strategy not found"
    ELSE IF ~strategies[strategy_id].is_active
    THEN "Strategy is not active"
    ELSE IF BigLt(deposit_amount, strategies[strategy_id].min_deposit)
    THEN "Below strategy minimum"
    ELSE "ok"

\* Mutant: the position is stored with the id after the strategy's.
push_position_next_strategy(user_id, position) ==
    [a \in DOMAIN user_positions \cup {user_id} |->
        IF a = user_id
        THEN Append(get_user_positions(user_id),
                    [position EXCEPT !.strategy_id = @ + 1])
        ELSE user_positions[a]]

\* Mutant: the position replaces the account's positions.
push_position_replacing(user_id, position) ==
    [a \in DOMAIN user_positions \cup {user_id} |->
        IF a = user_id THEN <<position>> ELSE user_positions[a]]

\* Mutant: the position is put in front of the account's positions.
push_position_first(user_id, position) ==
    [a \in DOMAIN user_positions \cup {user_id} |->
        IF a = user_id
        THEN <<position>> \o get_user_positions(user_id)
        ELSE user_positions[a]]

\* user_positions.push(position); self.user_positions.insert(...)
push_position(user_id, position) ==
    [a \in DOMAIN user_positions \cup {user_id} |->
        IF a = user_id
        THEN Append(get_user_positions(user_id), position)
        ELSE user_positions[a]]

\* Mutant: the strategy's tvl is not updated.
credit_strategy_forgotten(strategy_id, deposit_amount) == strategies

\* Mutant: the deposit is credited to every strategy.
credit_strategy_all(strategy_id, deposit_amount) ==
    [id \in DOMAIN strategies |->
        [strategies[id] EXCEPT !.tvl = U128Add(@, deposit_amount)]]

\* strategy.tvl += deposit_amount; self.strategies.insert(...)
credit_strategy(strategy_id, deposit_amount) ==
    [strategies EXCEPT ![strategy_id].tvl = U128Add(@, deposit_amount)]

\* Mutant: the aggregate counts the deposit twice.
credit_total_twice(deposit_amount) ==
    U128Add(U128Add(total_tvl, deposit_amount), deposit_amount)

\* Mutant: the aggregate is not updated.
credit_total_forgotten(deposit_amount) == total_tvl

\* self.total_tvl += deposit_amount
credit_total(deposit_amount) == U128Add(total_tvl, deposit_amount)

deposit(caller, strategy_id, deposit_amount) ==
    LET status == deposit_status(strategy_id, deposit_amount)
        position == [amount |-> deposit_amount, strategy_id |-> strategy_id,
                     rewards_claimed |-> << >>, deposit_timestamp |-> now]
    IN  /\ state_exists
        /\ last' = Call("deposit", caller, status, NoPromise)
        /\ IF status = "ok"
           THEN /\ deposits_made < MaxDeposits
                /\ calls_made < MaxCalls
                /\ user_positions' = push_position(caller, position)
                /\ strategies' = credit_strategy(strategy_id, deposit_amount)
                /\ total_tvl' = credit_total(deposit_amount)
                /\ deposit_log' =
                       [a \in DOMAIN deposit_log \cup {caller} |->
                           IF a = caller
                           THEN Append(IF caller \in DOMAIN deposit_log
                                       THEN deposit_log[caller]
                                       ELSE << >>, position)
                           ELSE deposit_log[a]]
                /\ UNCHANGED <<calc, state_exists, owner_id, governance_token,
                               strategy_count, min_deposit_amount, now,
                               receipts, adds_made>>
           ELSE Rejected

\* ------------------------------------------------------------------------
\* claim_rewards
\* ------------------------------------------------------------------------

\* Mutant: an account without positions is told its index is invalid.
claim_rewards_status_wrong_message(user_id, position_index) ==
    IF user_id \notin DOMAIN user_positions
    THEN "Invalid position index"
    ELSE IF ~(position_index < Len(user_positions[user_id]))
    THEN "Invalid position index"
    ELSE IF user_positions[user_id][position_index + 1].strategy_id
                \notin DOMAIN strategies
    THEN "Strategy not found"
    ELSE "ok"

claim_rewards_status(user_id, position_index) ==
    IF user_id \notin DOMAIN user_positions
    THEN "No positions found"
    ELSE IF ~(position_index < Len(user_positions[user_id]))
    THEN "Invalid position index"
    ELSE IF user_positions[user_id][position_index + 1].strategy_id
                \notin DOMAIN strategies
    THEN "Strategy not found"
    ELSE "ok"

\* Mutant: the reward accrues from the strategy's last update.
claim_amount_since_update(user_id, position_index) ==
    LET position == user_positions[user_id][position_index + 1]
        strategy == strategies[position.strategy_id]
        time_elapsed == now - strategy.last_update
    IN  calculate_rewards(position.amount, strategy.apy, time_elapsed)

\* let rewards = calculate_rewards(position.amount, strategy.apy, time_elapsed)
claim_amount(user_id, position_index) ==
    LET position == user_positions[user_id][position_index + 1]
        strategy == strategies[position.strategy_id]
        time_elapsed == now - position.deposit_timestamp
    IN  calculate_rewards(position.amount, strategy.apy, time_elapsed)

\* strategy.apy, as claim_rewards reads it
claim_apy(user_id, position_index) ==
    strategies[user_positions[user_id][position_index + 1].strategy_id].apy

\* Mutant: the claim moves the position's deposit_timestamp to the time of
\* the claim.
record_claim_resetting_baseline(user_id, position_index, rewards) ==
    [user_positions EXCEPT
        ![user_id][position_index + 1].rewards_claimed = U128Add(@, rewards),
        ![user_id][position_index + 1].deposit_timestamp = now]

\* Mutant: the reward is added to every position of the account.
record_claim_all_positions(user_id, position_index, rewards) ==
    [user_positions EXCEPT
        ![user_id] =
            [k \in DOMAIN @ |->
                [@[k] EXCEPT !.rewards_claimed = U128Add(@, rewards)]]]

\* Mutant: the claim overwrites what was claimed before.
record_claim_overwrite(user_id, position_index, rewards) ==
    [user_positions EXCEPT
        ![user_id][position_index + 1].rewards_claimed = rewards]

\* position.rewards_claimed += rewards; self.user_positions.insert(...)
record_claim(user_id, position_index, rewards) ==
    [user_positions EXCEPT
        ![user_id][position_index + 1].rewards_claimed = U128Add(@, rewards)]

claim_rewards(caller, position_index) ==
    LET status == claim_rewards_status(caller, position_index)
    IN  /\ state_exists
        /\ IF status = "ok"
           THEN LET rewards == claim_amount(caller, position_index)
                    promise == [receiver |-> caller, amount |-> rewards]
                IN  /\ Len(receipts) < MaxClaims
                    /\ calls_made < MaxCalls
                    /\ user_positions' =
                           record_claim(caller, position_index, rewards)
                    /\ receipts' =
                           Append(receipts,
                                  [receiver |-> caller, amount |-> rewards,
                                   position_index |-> position_index,
                                   apy |-> claim_apy(caller, position_index),
                                   time |-> now, outcome |-> "pending"])
                    /\ last' = Call("claim_rewards", caller, status, promise)
                    /\ UNCHANGED <<calc, state_exists, owner_id, governance_token,
                                   strategies, total_tvl, strategy_count,
                                   min_deposit_amount, now, deposit_log,
                                   adds_made>>
           ELSE /\ last' = Call("claim_rewards", caller, status, NoPromise)
                /\ Rejected

\* ------------------------------------------------------------------------
\* update_strategy_apy
\* ------------------------------------------------------------------------

update_strategy_apy_status(caller, strategy_id) ==
    IF ~is_owner(caller) THEN "Unauthorized"
    ELSE IF strategy_id \notin DOMAIN strategies THEN "Strategy not found"
    ELSE "ok"

\* Mutant: the update also clears is_active.
set_strategy_apy_deactivating(strategy_id, new_apy) ==
    [strategies EXCEPT ![strategy_id].apy = new_apy,
                       ![strategy_id].last_update = now,
                       ![strategy_id].is_active = FALSE]

\* Mutant: last_update is not set.
set_strategy_apy_only(strategy_id, new_apy) ==
    [strategies EXCEPT ![strategy_id].apy = new_apy]

\* strategy.apy = new_apy; strategy.last_update = env::block_timestamp();
\* self.strategies.insert(&strategy_id, &strategy)
set_strategy_apy(strategy_id, new_apy) ==
    [strategies EXCEPT ![strategy_id].apy = new_apy,
                       ![strategy_id].last_update = now]

update_strategy_apy(caller, strategy_id, new_apy) ==
    LET status == update_strategy_apy_status(caller, strategy_id)
    IN  /\ state_exists
        /\ last' = Call("update_strategy_apy", caller, status, NoPromise)
        /\ IF status = "ok"
           THEN /\ strategies' = set_strategy_apy(strategy_id, new_apy)
                /\ UNCHANGED <<calc, state_exists, owner_id, governance_token,
                               user_positions, total_tvl, strategy_count,
                               min_deposit_amount, now, receipts,
                               deposit_log, adds_made>>
           ELSE Rejected

\* ------------------------------------------------------------------------
\* Host
\* ------------------------------------------------------------------------

\* A later block: env::block_timestamp() grows.
next_block ==
    /\ now < MaxTime
    /\ now' = now + 1
    /\ last' = Call("next_block", NoAccount, "ok", NoPromise)
    /\ UNCHANGED <<calc, contract, receipts, deposit_log, adds_made>>

\* Mutant: a failed transfer takes the reward back out of the position.
settle_positions_reverting(k, outcome) ==
    IF outcome = "failed"
    THEN [user_positions EXCEPT
            ![receipts[k].receiver][receipts[k].position_index + 1]
                .rewards_claimed = << >>]
    ELSE user_positions

\* The ledger after the host has run transfer k: there is no callback, so
\* the contract is not entered and the positions stay as they are.
settle_positions(k, outcome) == user_positions

\* The host runs the transfer of receipt k, which succeeds or fails.
transfer(k, outcome) ==
    /\ k \in DOMAIN receipts
    /\ receipts[k].outcome = "pending"
    /\ receipts' = [receipts EXCEPT ![k].outcome = outcome]
    /\ user_positions' = settle_positions(k, outcome)
    /\ last' = Call("transfer", receipts[k].receiver, outcome, NoPromise)
    /\ UNCHANGED <<calc, state_exists, owner_id, governance_token, strategies,
                   total_tvl, strategy_count, min_deposit_amount, now,
                   deposit_log, adds_made>>

\* ------------------------------------------------------------------------
\* Specification
\* ------------------------------------------------------------------------

Next ==
    \/ \E caller \in Accounts, owner \in Owners, token \in Tokens :
           new(caller, owner, token)
    \/ \E caller \in Accounts, method \in Methods :
           not_initialized(caller, method)
    \/ \E caller \in Accounts, name \in Names, protocol \in Protocols,
          apy \in InitialApys, min_deposit \in StrategyMinimums :
           add_strategy(caller, name, protocol, apy, min_deposit)
    \/ \E caller \in Accounts, strategy_id \in StrategyIds,
          deposit_amount \in AttachedDeposits :
           deposit(caller, strategy_id, deposit_amount)
    \/ \E caller \in Accounts, position_index \in PositionIndexes :
           claim_rewards(caller, position_index)
    \/ \E caller \in Accounts, strategy_id \in StrategyIds, new_apy \in NewApys :
           update_strategy_apy(caller, strategy_id, new_apy)
    \/ next_block
    \/ \E k \in 1..MaxClaims, outcome \in {"ok", "failed"} :
           transfer(k, outcome)

Spec == Init /\ [][Next]_vars

\* ------------------------------------------------------------------------
\* calculate_rewards on its own: the inputs are drawn at the start and one
\* step applies the function.
\* ------------------------------------------------------------------------

CalcAmounts ==
    {<< >>, NatToBig(1), NatToBig(19999), NatToBig(1000000),
     GlobalMinDeposit, BigAdd(TwiceMin, NatToBig(12345))}
CalcApys == {0, 1, 500, 10000, 12345}
CalcElapsed ==
    {0, 1, seconds_in_year - 1, seconds_in_year, 2 * seconds_in_year + 1}

InitCalc ==
    /\ Undeployed
    /\ \E amount \in CalcAmounts, apy \in CalcApys,
          time_elapsed \in CalcElapsed :
           calc = [phase |-> "input", amount |-> amount, apy |-> apy,
                   time_elapsed |-> time_elapsed, rewards |-> << >>]

calculate ==
    /\ calc.phase = "input"
    /\ calc' = [calc EXCEPT
                   !.phase = "done",
                   !.rewards = calculate_rewards(calc.amount, calc.apy,
                                                 calc.time_elapsed)]
    /\ UNCHANGED <<contract, now, receipts, deposit_log, last, adds_made>>

NextCalc == calculate

SpecCalc == InitCalc /\ [][NextCalc]_vars

\* ------------------------------------------------------------------------
\* calculate_rewards on two inputs, one no smaller than the other: the
\* inputs and the build's overflow checking are drawn at the start and one
\* step applies the function to each.
\* ------------------------------------------------------------------------

\* One of the two products of calculate_rewards does not fit in 128 bits.
calculate_rewards_overflows(amount, apy, time_elapsed) ==
    LET product == BigMulSmall(amount, apy)
        annual_reward == BigDivSmall(WrapU128(product), 10000)
    IN  \/ Len(product) > U128Limbs
        \/ Len(BigMulSmall(annual_reward, time_elapsed)) > U128Limbs

\* 10^31 and 10^33 yoctoNEAR.
LargeAmounts ==
    LET e31 == BigMulSmall(BigMulSmall(GlobalMinDeposit, 100000), 100000)
    IN  {e31, BigMulSmall(e31, 100)}
CompareAmounts == CalcAmounts \cup LargeAmounts
CompareApys == CalcApys \cup {300000, 400000}

InitCompare ==
    /\ Undeployed
    /\ \E amount \in CompareAmounts, apy \in CompareApys,
          more_apy \in CompareApys, time_elapsed \in CalcElapsed,
          more_time_elapsed \in CalcElapsed, overflow_checks \in BOOLEAN :
           /\ apy <= more_apy
           /\ time_elapsed <= more_time_elapsed
           /\ calc = [phase |-> "input", overflow_checks |-> overflow_checks,
                      amount |-> amount, apy |-> apy,
                      time_elapsed |-> time_elapsed, more_apy |-> more_apy,
                      more_time_elapsed |-> more_time_elapsed,
                      rewards |-> << >>, rewards_more_apy |-> << >>,
                      rewards_more_time |-> << >>]

compare ==
    /\ calc.phase = "input"
    /\ calc' =
           IF /\ calc.overflow_checks
              /\ \/ calculate_rewards_overflows(calc.amount, calc.apy,
                                                calc.time_elapsed)
                 \/ calculate_rewards_overflows(calc.amount, calc.more_apy,
                                                calc.time_elapsed)
                 \/ calculate_rewards_overflows(calc.amount, calc.apy,
                                                calc.more_time_elapsed)
           THEN [calc EXCEPT !.phase = "panicked"]
           ELSE [calc EXCEPT
                    !.phase = "done",
                    !.rewards =
                        calculate_rewards(calc.amount, calc.apy,
                                          calc.time_elapsed),
                    !.rewards_more_apy =
                        calculate_rewards(calc.amount, calc.more_apy,
                                          calc.time_elapsed),
                    !.rewards_more_time =
                        calculate_rewards(calc.amount, calc.apy,
                                          calc.more_time_elapsed)]
    /\ UNCHANGED <<contract, now, receipts, deposit_log, last, adds_made>>

NextCompare == compare

SpecCompare == InitCompare /\ [][NextCompare]_vars

\* ------------------------------------------------------------------------
\* Sums, taken without any width
\* ------------------------------------------------------------------------

RECURSIVE SumStrategyTvl(_)
\* The sum of tvl over the strategies with the given ids.
SumStrategyTvl(ids) ==
    IF ids = {} THEN << >>
    ELSE LET id == CHOOSE x \in ids : TRUE
         IN  BigAdd(strategies[id].tvl, SumStrategyTvl(ids \ {id}))

RECURSIVE SumAmounts(_, _)
\* The sum of amount over the positions of a sequence whose strategy_id is
\* among ids.
SumAmounts(positions, ids) ==
    IF positions = << >> THEN << >>
    ELSE BigAdd(IF Head(positions).strategy_id \in ids
                THEN Head(positions).amount ELSE << >>,
                SumAmounts(Tail(positions), ids))

RECURSIVE SumLedger(_, _, _)
\* The sum of amount over the positions, of the given accounts in a ledger,
\* whose strategy_id is among ids.
SumLedger(ledger, accounts, ids) ==
    IF accounts = {} THEN << >>
    ELSE LET a == CHOOSE x \in accounts : TRUE
         IN  BigAdd(SumAmounts(ledger[a], ids),
                    SumLedger(ledger, accounts \ {a}, ids))

\* Some position holds a claimed reward.
SomeRewardClaimed ==
    \E a \in DOMAIN user_positions :
        \E i \in DOMAIN user_positions[a] :
            user_positions[a][i].rewards_claimed # << >>

\* ------------------------------------------------------------------------
\* C1
\* ------------------------------------------------------------------------

\* C1: in every reachable state, after successful and rejected calls alike,
\* total_tvl is the sum of tvl over all strategies in the registry.
C1_TotalTvlIsSumOfStrategyTvl ==
    total_tvl = SumStrategyTvl(DOMAIN strategies)

\* Two strategies hold deposits and the call just made was rejected.
C1_Witness ==
    /\ \E s1, s2 \in DOMAIN strategies :
           /\ s1 # s2
           /\ strategies[s1].tvl # << >>
           /\ strategies[s2].tvl # << >>
    /\ last.status \notin {"ok", "failed"}

\* ------------------------------------------------------------------------
\* C2
\* ------------------------------------------------------------------------

\* C2: get_total_tvl returns the sum of the attached values of the deposits
\* that succeeded so far, whatever other calls were made in between, and 0
\* right after initialization.
C2_TotalTvlIsSumOfDeposits ==
    /\ get_total_tvl = SumLedger(deposit_log, DOMAIN deposit_log, Nat)
    /\ (last.op = "new" /\ last.status = "ok") => get_total_tvl = << >>

\* Two accounts have deposited and a further deposit has just been rejected.
C2_Witness ==
    /\ Cardinality(DOMAIN deposit_log) = 2
    /\ get_total_tvl = TwiceMin
    /\ last.op = "deposit"
    /\ last.status # "ok"

\* ------------------------------------------------------------------------
\* C3
\* ------------------------------------------------------------------------

\* C3: in every reachable state each strategy's tvl is the sum of amount
\* over the positions, of all accounts, whose strategy_id is that strategy.
C3_StrategyTvlIsSumOfPositions ==
    \A s \in DOMAIN strategies :
        strategies[s].tvl =
            SumLedger(user_positions, DOMAIN user_positions, {s})

\* Two accounts hold a position in the same strategy and a reward has been
\* claimed.
C3_Witness ==
    /\ \E s \in DOMAIN strategies :
           /\ strategies[s].tvl = TwiceMin
           /\ \A a \in Accounts :
                  /\ a \in DOMAIN user_positions
                  /\ user_positions[a][1].strategy_id = s
    /\ SomeRewardClaimed

\* ------------------------------------------------------------------------
\* C4
\* ------------------------------------------------------------------------

\* The position the successful deposit just made has created.
NewPosition == deposit_log'[last'.caller][Len(deposit_log'[last'.caller])]

\* C4: a successful deposit of value v into strategy s increases the tvl of
\* s by exactly v and leaves the tvl of every other strategy unchanged.
C4_DepositCreditsOnlyItsStrategy ==
    [][(last'.op = "deposit" /\ last'.status = "ok") =>
          /\ DOMAIN strategies' = DOMAIN strategies
          /\ \A s \in DOMAIN strategies :
                 strategies'[s].tvl =
                     IF s = NewPosition.strategy_id
                     THEN BigAdd(strategies[s].tvl, NewPosition.amount)
                     ELSE strategies[s].tvl]_vars

\* A deposit has just succeeded while another strategy holds value.
C4_Witness ==
    /\ last.op = "deposit"
    /\ last.status = "ok"
    /\ \E s1, s2 \in DOMAIN strategies :
           /\ s1 # s2
           /\ strategies[s1].tvl = GlobalMinDeposit
           /\ strategies[s2].tvl = GlobalMinDeposit

\* ------------------------------------------------------------------------
\* C5
\* ------------------------------------------------------------------------

BigMax(a, b) == IF BigLt(a, b) THEN b ELSE a

\* C5: a deposit into an existing strategy with an attached value below
\* max(min_deposit_amount, the strategy's min_deposit) is rejected, and
\* total_tvl, every strategy and every account's positions stay as they were.
C5_SmallDepositRejected ==
    [][\A caller \in Accounts, s \in StrategyIds, v \in AttachedDeposits :
          ( /\ last'.op = "deposit"
            /\ s \in DOMAIN strategies
            /\ BigLt(v, BigMax(min_deposit_amount, strategies[s].min_deposit))
            /\ deposit(caller, s, v) )
          => /\ last'.status \in {"Deposit too small", "Below strategy minimum"}
             /\ UNCHANGED <<total_tvl, strategies, user_positions>>]_vars

\* A deposit has just been rejected for the strategy's minimum, with value
\* already deposited elsewhere.
C5_Witness ==
    /\ last.op = "deposit"
    /\ last.status = "Below strategy minimum"
    /\ total_tvl # << >>

\* ------------------------------------------------------------------------
\* C6
\* ------------------------------------------------------------------------

OwnerGated == {"add_strategy", "update_strategy_apy"}

\* C6: owner_id is the account given to new() and never changes afterwards;
\* add_strategy and update_strategy_apy succeed only for that caller, and a
\* call by any other account fails with Unauthorized and leaves the registry
\* and strategy_count unchanged.
C6_OnlyOwnerChangesRegistry ==
    [][/\ \A caller \in Accounts, owner \in Owners, token \in Tokens :
              (new(caller, owner, token) /\ ~state_exists) => owner_id' = owner
       /\ state_exists => owner_id' = owner_id
       /\ (last'.op \in OwnerGated /\ last'.status = "ok")
              => last'.caller = owner_id
       /\ (last'.op \in OwnerGated /\ state_exists /\ last'.caller # owner_id)
              => /\ last'.status = "Unauthorized"
                 /\ UNCHANGED <<strategies, strategy_count>>]_vars

\* A non-owner's update_strategy_apy has just been refused on an existing
\* registry.
C6_Witness ==
    /\ last.op = "update_strategy_apy"
    /\ last.status = "Unauthorized"
    /\ last.caller # owner_id
    /\ strategy_count > 0

\* ------------------------------------------------------------------------
\* C7
\* ------------------------------------------------------------------------

\* C7: claim_rewards by a caller without a position sequence fails with
\* "No positions found", and with position_index at or beyond the caller's
\* position count it fails with "Invalid position index"; either way no
\* position of any account changes and no transfer is issued.
C7_BadClaimRejected ==
    [][\A caller \in Accounts, i \in PositionIndexes :
          ( /\ last'.op = "claim_rewards"
            /\ state_exists
            /\ claim_rewards(caller, i) )
          => /\ caller \notin DOMAIN user_positions
                 => /\ last'.status = "No positions found"
                    /\ last'.promise = NoPromise
                    /\ UNCHANGED <<user_positions, receipts>>
             /\ ( /\ caller \in DOMAIN user_positions
                  /\ i >= Len(user_positions[caller]) )
                 => /\ last'.status = "Invalid position index"
                    /\ last'.promise = NoPromise
                    /\ UNCHANGED <<user_positions, receipts>>]_vars

\* A claim has just failed on its index while a reward is already claimed.
C7_Witness ==
    /\ last.op = "claim_rewards"
    /\ last.status = "Invalid position index"
    /\ SomeRewardClaimed

\* ------------------------------------------------------------------------
\* C8
\* ------------------------------------------------------------------------

\* C8: a successful claim_rewards(i) by account a adds to the rewards_claimed
\* of a's i-th position exactly r, the reward of the position's amount at the
\* current apy of its strategy over the time since its deposit_timestamp,
\* and returns a transfer of exactly r to a.
C8_ClaimPaysAccruedReward ==
    [][\A a \in Accounts, i \in PositionIndexes :
          ( /\ last'.op = "claim_rewards"
            /\ last'.status = "ok"
            /\ claim_rewards(a, i) )
          => LET position == user_positions[a][i + 1]
                 r == calculate_rewards(
                          position.amount,
                          strategies[position.strategy_id].apy,
                          now - position.deposit_timestamp)
             IN  /\ user_positions'[a][i + 1].rewards_claimed =
                        BigAdd(position.rewards_claimed, r)
                 /\ last'.promise = [receiver |-> a, amount |-> r]
                 /\ receipts'[Len(receipts')].amount = r
                 /\ receipts'[Len(receipts')].receiver = a]_vars

\* A claim has just paid a nonzero reward, and the caller holds a position
\* with a claimed reward whose strategy had its apy changed after the
\* deposit.
C8_Witness ==
    /\ last.op = "claim_rewards"
    /\ last.status = "ok"
    /\ last.promise.amount # << >>
    /\ \E i \in DOMAIN user_positions[last.caller] :
           LET position == user_positions[last.caller][i]
           IN  /\ position.rewards_claimed # << >>
               /\ strategies[position.strategy_id].apy \in NewApys
               /\ strategies[position.strategy_id].last_update
                      > position.deposit_timestamp

\* ------------------------------------------------------------------------
\* C9
\* ------------------------------------------------------------------------

RECURSIVE SumReceipts(_, _, _, _)
\* The sum of the transfers issued to account a for its position i whose
\* outcome is among outcomes.
SumReceipts(issued, a, i, outcomes) ==
    IF issued = << >> THEN << >>
    ELSE BigAdd(IF /\ Head(issued).receiver = a
                   /\ Head(issued).position_index = i
                   /\ Head(issued).outcome \in outcomes
                THEN Head(issued).amount ELSE << >>,
                SumReceipts(Tail(issued), a, i, outcomes))

Outcomes == {"pending", "ok", "failed"}

\* C9: the reward is in rewards_claimed from the claim step on, while its
\* transfer is still pending, and stays there when the transfer fails: each
\* position's rewards_claimed is the sum of all transfers issued for it,
\* whatever became of them.
C9_ClaimedStaysWhenTransferFails ==
    \A a \in DOMAIN user_positions :
        \A k \in DOMAIN user_positions[a] :
            user_positions[a][k].rewards_claimed =
                SumReceipts(receipts, a, k - 1, Outcomes)

\* A transfer has failed, and the position's rewards_claimed exceeds what
\* was transferred for it.
C9_Witness ==
    \E n \in DOMAIN receipts :
        LET a == receipts[n].receiver
            k == receipts[n].position_index + 1
        IN  /\ receipts[n].outcome = "failed"
            /\ receipts[n].amount # << >>
            /\ BigLt(SumReceipts(receipts, a, k - 1, {"ok"}),
                     user_positions[a][k].rewards_claimed)

\* ------------------------------------------------------------------------
\* C10
\* ------------------------------------------------------------------------

\* q is floor(x / d): q * d <= x < q * d + d.
IsFloorOf(q, x, d) ==
    /\ BigLe(BigMulSmall(q, d), x)
    /\ BigLt(x, BigAdd(BigMulSmall(q, d), NatToBig(d)))

\* C10: calculate_rewards(amount, apy, elapsed) is
\* floor(floor(amount * apy / 10000) * elapsed / 31536000); for 1000000 at
\* 500 basis points over 31536000 it is 50000, and for apy 0 it is 0.
C10_RewardIsTwoFloors ==
    calc.phase = "done" =>
        LET product == BigMulSmall(calc.amount, calc.apy)
            annual == BigDivSmall(product, 10000)
        IN  /\ IsFloorOf(annual, product, 10000)
            /\ IsFloorOf(calc.rewards, BigMulSmall(annual, calc.time_elapsed),
                         31536000)
            /\ ( /\ calc.amount = NatToBig(1000000)
                 /\ calc.apy = 500
                 /\ calc.time_elapsed = 31536000 )
               => calc.rewards = NatToBig(50000)
            /\ calc.apy = 0 => calc.rewards = << >>

\* The function has been applied to an amount on which both divisions
\* truncate.
C10_Witness ==
    /\ calc.phase = "done"
    /\ calc.amount = NatToBig(19999)
    /\ calc.apy = 500
    /\ calc.time_elapsed = seconds_in_year - 1
    /\ calc.rewards = NatToBig(998)

\* ------------------------------------------------------------------------
\* C11
\* ------------------------------------------------------------------------

\* C11: calculate_rewards does not decrease when time_elapsed grows with
\* amount and apy fixed, nor when apy grows with amount and time_elapsed
\* fixed.
C11_RewardIsMonotone ==
    calc.phase = "done" =>
        /\ BigLe(calc.rewards, calc.rewards_more_time)
        /\ BigLe(calc.rewards, calc.rewards_more_apy)

\* The same, for inputs on which neither product of any of the three
\* applications reaches 2^128.
C11_RewardIsMonotoneWithoutOverflow ==
    ( /\ calc.phase = "done"
      /\ ~calculate_rewards_overflows(calc.amount, calc.apy,
                                      calc.time_elapsed)
      /\ ~calculate_rewards_overflows(calc.amount, calc.more_apy,
                                      calc.time_elapsed)
      /\ ~calculate_rewards_overflows(calc.amount, calc.apy,
                                      calc.more_time_elapsed) )
    => /\ BigLe(calc.rewards, calc.rewards_more_time)
       /\ BigLe(calc.rewards, calc.rewards_more_apy)

\* ------------------------------------------------------------------------
\* C12
\* ------------------------------------------------------------------------

\* C12: the ids of the registry are exactly 0 .. strategy_count - 1 and
\* strategy_count is the number of successful add_strategy calls; a
\* successful add_strategy stores the new strategy, with tvl 0, is_active
\* true and last_update the current time, under the id that strategy_count
\* had before the call, and leaves every strategy already stored as it was.
C12_RegistryIdsAreDense ==
    /\ [](/\ DOMAIN strategies =
                {id \in 0..strategy_count : id < strategy_count}
          /\ strategy_count = adds_made)
    /\ [][(last'.op = "add_strategy" /\ last'.status = "ok")
          => /\ strategy_count \notin DOMAIN strategies
             /\ DOMAIN strategies' = DOMAIN strategies \cup {strategy_count}
             /\ strategies'[strategy_count].tvl = << >>
             /\ strategies'[strategy_count].is_active
             /\ strategies'[strategy_count].last_update = now
             /\ \A id \in DOMAIN strategies :
                    strategies'[id] = strategies[id]]_vars

\* A second strategy has just been added at time 2 while the first, added
\* at time 1, holds a deposit.
C12_Witness ==
    /\ last.op = "add_strategy"
    /\ last.status = "ok"
    /\ adds_made = 2
    /\ strategies[0].tvl # << >>
    /\ strategies[0].last_update = 1
    /\ strategies[1].tvl = << >>
    /\ strategies[1].last_update = 2

\* ------------------------------------------------------------------------
\* C13
\* ------------------------------------------------------------------------

\* C13: update_strategy_apy(strategy_id, new_apy) called by the owner is
\* rejected with "Strategy not found" and changes nothing when strategy_id
\* is not in the registry; otherwise it succeeds, sets that strategy's apy
\* to new_apy and its last_update to the current time, and leaves its name,
\* protocol, tvl, min_deposit and is_active, every other strategy,
\* strategy_count, total_tvl and all positions unchanged.
C13_UpdateSetsApyAndTimeOnly ==
    [][\A caller \in Accounts, strategy_id \in StrategyIds,
          new_apy \in NewApys :
           ( /\ last'.op = "update_strategy_apy"
             /\ caller = owner_id
             /\ update_strategy_apy(caller, strategy_id, new_apy) )
           => IF strategy_id \notin DOMAIN strategies
              THEN /\ last'.status = "Strategy not found"
                   /\ UNCHANGED <<contract, receipts>>
              ELSE /\ last'.status = "ok"
                   /\ DOMAIN strategies' = DOMAIN strategies
                   /\ strategies'[strategy_id].apy = new_apy
                   /\ strategies'[strategy_id].last_update = now
                   /\ \A field \in {"name", "protocol", "tvl", "min_deposit",
                                    "is_active"} :
                          strategies'[strategy_id][field] =
                              strategies[strategy_id][field]
                   /\ \A id \in DOMAIN strategies \ {strategy_id} :
                          strategies'[id] = strategies[id]
                   /\ UNCHANGED <<strategy_count, total_tvl, user_positions,
                                  owner_id, governance_token,
                                  min_deposit_amount, receipts>>]_vars

\* The owner has just updated, at time 2, the first of two strategies, which
\* was added at time 1 and holds a deposit.
C13_Witness ==
    /\ last.op = "update_strategy_apy"
    /\ last.status = "ok"
    /\ strategy_count = 2
    /\ strategies[0].apy \in NewApys
    /\ strategies[0].last_update = 2
    /\ strategies[0].tvl # << >>
    /\ strategies[1].apy \in InitialApys
    /\ strategies[1].last_update = 1

\* The owner's update of an id that is not in the registry has just been
\* rejected, with a strategy in the registry.
C13_WitnessNotFound ==
    /\ last.op = "update_strategy_apy"
    /\ last.status = "Strategy not found"
    /\ strategy_count > 0

\* ------------------------------------------------------------------------
\* C14
\* ------------------------------------------------------------------------

\* C14: new() called on a contract that is already initialised is rejected
\* with "Already initialized" and leaves owner_id, governance_token, the
\* registry, the ledger, total_tvl and strategy_count unchanged.
C14_SecondNewRejected ==
    [][(last'.op = "new" /\ state_exists)
       => /\ last'.status = "Already initialized"
          /\ UNCHANGED <<owner_id, governance_token, strategies,
                         user_positions, total_tvl, strategy_count,
                         min_deposit_amount, state_exists>>]_vars

\* new() has just been rejected on a contract that holds a strategy and a
\* deposit; the caller is not the owner.
C14_Witness ==
    /\ last.op = "new"
    /\ last.status = "Already initialized"
    /\ last.caller # owner_id
    /\ strategy_count > 0
    /\ total_tvl # << >>
    /\ DOMAIN user_positions # {}

\* ------------------------------------------------------------------------
\* C15
\* ------------------------------------------------------------------------

\* The positions an account's successful deposits created, in order.
Deposited(a) == IF a \in DOMAIN deposit_log THEN deposit_log[a] ELSE << >>

\* C15: get_user_positions(a) is the empty sequence for an account that has
\* made no successful deposit, and otherwise holds exactly the positions
\* that the account's successful deposits created, in the order of the
\* deposits (rewards_claimed being what has been claimed on each since).
C15_PositionsAreTheDeposits ==
    \A a \in Accounts :
        LET positions == get_user_positions(a)
        IN  /\ Deposited(a) = << >> => positions = << >>
            /\ Len(positions) = Len(Deposited(a))
            /\ \A k \in DOMAIN positions :
                   \A field \in {"amount", "strategy_id",
                                 "deposit_timestamp"} :
                       positions[k][field] = Deposited(a)[k][field]

\* One account has deposited at time 1 and again at time 2 and has claimed a
\* reward on its first position; another account has never deposited.
C15_Witness ==
    \E a, b \in Accounts :
        /\ Deposited(b) = << >>
        /\ get_user_positions(b) = << >>
        /\ Len(get_user_positions(a)) = 2
        /\ get_user_positions(a)[1].deposit_timestamp = 1
        /\ get_user_positions(a)[2].deposit_timestamp = 2
        /\ get_user_positions(a)[1].rewards_claimed # << >>

\* ------------------------------------------------------------------------
\* C16
\* ------------------------------------------------------------------------

\* C16: in every step, each account's positions after the step begin with
\* its positions before the step, with amount, strategy_id and
\* deposit_timestamp as they were and rewards_claimed no smaller; the
\* sequence grows, by one position, only in a successful deposit of that
\* account, and a rewards_claimed changes only in a successful claim_rewards
\* of that account.
C16_PositionsAppendOnly ==
    [][\A a \in Accounts :
           LET before == get_user_positions(a)
               after == IF a \in DOMAIN user_positions'
                        THEN user_positions'[a]
                        ELSE << >>
           IN  /\ Len(before) <= Len(after)
               /\ \A k \in DOMAIN before :
                      /\ after[k].amount = before[k].amount
                      /\ after[k].strategy_id = before[k].strategy_id
                      /\ after[k].deposit_timestamp =
                             before[k].deposit_timestamp
                      /\ BigLe(before[k].rewards_claimed,
                               after[k].rewards_claimed)
               /\ Len(after) # Len(before)
                  => /\ Len(after) = Len(before) + 1
                     /\ last' = Call("deposit", a, "ok", NoPromise)
               /\ (\E k \in DOMAIN before :
                       after[k].rewards_claimed # before[k].rewards_claimed)
                  => /\ last'.op = "claim_rewards"
                     /\ last'.status = "ok"
                     /\ last'.caller = a]_vars

\* An account has two positions, made at different times, and has claimed a
\* reward on one of them; a transfer has just failed.
C16_Witness ==
    /\ \E n \in DOMAIN receipts : receipts[n].outcome = "failed"
    /\ last.op = "transfer"
    /\ \E a \in Accounts :
           /\ Len(get_user_positions(a)) = 2
           /\ get_user_positions(a)[1].deposit_timestamp
                  # get_user_positions(a)[2].deposit_timestamp
           /\ \E k \in 1..2 : get_user_positions(a)[k].rewards_claimed # << >>

\* ------------------------------------------------------------------------
\* C17
\* ------------------------------------------------------------------------

\* The claims made on position i of account a, as indexes into receipts.
ClaimsOn(a, i) ==
    {n \in DOMAIN receipts :
        receipts[n].receiver = a /\ receipts[n].position_index = i}

\* C17: when one position has been claimed successfully twice, at times
\* t1 <= t2, and the strategy's apy was the same at both claims, the first
\* claim paid calculate_rewards(amount, apy, t1 - deposit_timestamp) and the
\* second calculate_rewards(amount, apy, t2 - deposit_timestamp), both from
\* the deposit_timestamp the deposit set, and rewards_claimed after the two
\* is the sum of both payments.
C17_BaselineNeverResets ==
    \A n1, n2 \in DOMAIN receipts :
        LET first == receipts[n1]
            second == receipts[n2]
            a == first.receiver
            i == first.position_index
            created == Deposited(a)[i + 1]
        IN  ( /\ n1 < n2
              /\ second.receiver = a
              /\ second.position_index = i
              /\ first.apy = second.apy )
            => /\ first.time <= second.time
               /\ first.amount =
                      calculate_rewards(
                          created.amount, first.apy,
                          first.time - created.deposit_timestamp)
               /\ second.amount =
                      calculate_rewards(
                          created.amount, second.apy,
                          second.time - created.deposit_timestamp)
               /\ ClaimsOn(a, i) = {n1, n2}
                  => user_positions[a][i + 1].rewards_claimed =
                         BigAdd(first.amount, second.amount)

\* A position made at time 1 has been claimed twice at time 2 at the same
\* apy, and each claim paid the same reward, which is not 0.
C17_Witness ==
    \E n1, n2 \in DOMAIN receipts :
        /\ n1 < n2
        /\ receipts[n1].receiver = receipts[n2].receiver
        /\ receipts[n1].position_index = receipts[n2].position_index
        /\ receipts[n1].apy = receipts[n2].apy
        /\ receipts[n1].time = 2
        /\ receipts[n2].time = 2
        /\ receipts[n1].amount # << >>
        /\ receipts[n2].amount = receipts[n1].amount

\* A position made at time 1 has been claimed at time 1 and again at time 2
\* at the same apy; the second claim paid a reward that is not 0.
C17_WitnessLater ==
    \E n1, n2 \in DOMAIN receipts :
        /\ n1 < n2
        /\ receipts[n1].receiver = receipts[n2].receiver
        /\ receipts[n1].position_index = receipts[n2].position_index
        /\ receipts[n1].apy = receipts[n2].apy
        /\ receipts[n1].time = 1
        /\ receipts[n2].time = 2
        /\ receipts[n2].amount # << >>

\* ------------------------------------------------------------------------
\* C18
\* ------------------------------------------------------------------------

\* C18: every position's strategy_id is the id of a strategy in the
\* registry and is below strategy_count, and no claim_rewards call is
\* rejected with "Strategy not found".
C18_PositionsReferToStrategies ==
    /\ \A a \in DOMAIN user_positions :
           \A k \in DOMAIN user_positions[a] :
               /\ user_positions[a][k].strategy_id \in DOMAIN strategies
               /\ user_positions[a][k].strategy_id < strategy_count
    /\ ~(last.op = "claim_rewards" /\ last.status = "Strategy not found")

\* A claim on a position in the strategy added last has just succeeded.
C18_Witness ==
    /\ last.op = "claim_rewards"
    /\ last.status = "ok"
    /\ strategy_count = 2
    /\ \E k \in DOMAIN user_positions[last.caller] :
           /\ user_positions[last.caller][k].strategy_id = strategy_count - 1
           /\ user_positions[last.caller][k].rewards_claimed # << >>

\* ------------------------------------------------------------------------
\* C19
\* ------------------------------------------------------------------------

\* C19: every strategy in the registry has is_active true, and no deposit
\* is rejected with "Strategy is not active".
C19_StrategiesStayActive ==
    /\ \A id \in DOMAIN strategies : strategies[id].is_active
    /\ ~(last.op = "deposit" /\ last.status = "Strategy is not active")

\* A deposit has just been accepted into the only strategy, whose apy was
\* updated before.
C19_Witness ==
    /\ last.op = "deposit"
    /\ last.status = "ok"
    /\ strategy_count = 1
    /\ \E id \in DOMAIN strategies :
           /\ strategies[id].apy \in NewApys
           /\ strategies[id].tvl # << >>
           /\ strategies[id].is_active

\* ------------------------------------------------------------------------
\* C20
\* ------------------------------------------------------------------------

\* C20: a successful claim_rewards(position_index) by an account changes
\* nothing but rewards_claimed of that account's position at
\* position_index: the account's other positions, the other fields of that
\* position, the positions of every other account, every strategy,
\* strategy_count and total_tvl are unchanged.
C20_ClaimChangesOnlyRewardsClaimed ==
    [][\A caller \in Accounts, position_index \in PositionIndexes :
           ( /\ last'.op = "claim_rewards"
             /\ last'.status = "ok"
             /\ claim_rewards(caller, position_index) )
           => /\ DOMAIN user_positions' = DOMAIN user_positions
              /\ \A a \in DOMAIN user_positions \ {caller} :
                     user_positions'[a] = user_positions[a]
              /\ Len(user_positions'[caller]) = Len(user_positions[caller])
              /\ \A k \in DOMAIN user_positions[caller] :
                     IF k = position_index + 1
                     THEN \A field \in {"amount", "strategy_id",
                                        "deposit_timestamp"} :
                              user_positions'[caller][k][field] =
                                  user_positions[caller][k][field]
                     ELSE user_positions'[caller][k] =
                              user_positions[caller][k]
              /\ UNCHANGED <<strategies, strategy_count, total_tvl, owner_id,
                             governance_token, min_deposit_amount>>]_vars

\* An account with two positions has just claimed a reward on the second.
C20_Witness ==
    /\ last.op = "claim_rewards"
    /\ last.status = "ok"
    /\ last.promise.amount # << >>
    /\ Len(user_positions[last.caller]) = 2
    /\ user_positions[last.caller][1].rewards_claimed = << >>
    /\ user_positions[last.caller][2].rewards_claimed = last.promise.amount

\* An account has just claimed a reward while another account holds a
\* position.
C20_WitnessOtherAccount ==
    /\ last.op = "claim_rewards"
    /\ last.status = "ok"
    /\ last.promise.amount # << >>
    /\ Cardinality(DOMAIN user_positions) = 2

====
